---- MODULE Spec2Model ----
(***************************************************************************)
(* A model of atlas.py: the AtlasAPI client (cluster listing, host         *)
(* extraction, measurements, LDAP provisioning) and the AtlasAPIKey        *)
(* key-management object.  Every HTTP request the code issues is one step  *)
(* of the model; the server's answer to it is chosen nondeterministically. *)
(***************************************************************************)
EXTENDS Integers, Sequences, FiniteSets, TLC

(* ------------------------------------------------------------------------ *)
(* Values                                                                    *)
(* ------------------------------------------------------------------------ *)

\* Python's None.
None == "None"

\* An argument the caller left out, so that the parameter's default applies.
NotGiven == "NotGiven"

\* The longest request log the model keeps; the poll loop of setldap may go
\* round more often than this, the log then stops growing.
MaxLog == 7

\* Project ids known to the server.
Projects == {"P1", "P2"}

\* The clusters document the server returns for each project.  A mongoURI is
\* kept as its sequence of lexical tokens.
ServerClusters ==
    [p \in Projects |->
        IF p = "P1"
        THEN << [id |-> "c1",
                 mongoURI |-> <<"mongodb://", "h1", ":27017", ",", "h2", ":27017">>],
                [id |-> "c2",
                 mongoURI |-> <<"mongodb://", "h3", ":27017">>] >>
        ELSE << [id |-> "c3",
                 mongoURI |-> <<"mongodb://", "h2", ":27017", ",", "h1", ":27017">>] >>]

ClusterIds == {"c1", "c2", "c3"}
Hosts == {"h1", "h2", "h3"}

\* Bodies a measurement endpoint may answer with.
MeasurementDocs == {[measurements |-> "doc1"], [measurements |-> "doc2"]}

\* Status codes the server may answer a GET or a key POST with.
GetStatuses == {200, 500}

\* Status codes the server may answer the LDAP PATCH with.
PatchStatuses == {202, 500}

\* Verification statuses the LDAP verify endpoint reports.
LdapStatuses == {"PENDING", "SUCCESS", "FAILED"}

\* Key ids the server may hand out.
KeyIds == {"k1", "k2"}

\* Names bound in the module's global scope or in Python's builtins that the
\* code refers to.
BoundNames == {"True", "False", "None", "json", "os", "time", "requests",
               "urllib3", "UserDict", "Exception", "isinstance", "bytes"}

(* ------------------------------------------------------------------------ *)
(* Outcomes of a call                                                        *)
(* ------------------------------------------------------------------------ *)

\* Values are kept with the name of what they are, as a one-field record (a
\* Python tuple as a record of its components), so that any two of them can
\* be compared.
PyNone == [none |-> TRUE]

NoOutcome == [kind |-> "none", exc |-> None, text |-> None, value |-> PyNone]

Return(v) == [kind |-> "return", exc |-> None, text |-> None, value |-> v]

\* raise Exception("project is None")
RaiseMissingProject ==
    [kind |-> "raise", exc |-> "Exception", text |-> "project is None", value |-> PyNone]

\* raise Exception("You must have MONGODB_ATLAS_PUBLIC_KEY and ...")
RaiseMissingCredentials ==
    [kind |-> "raise", exc |-> "Exception", text |-> "You must have keys", value |-> PyNone]

\* A variant that hands the error response back instead of raising.
RaiseApi_m(r) ==
    [kind |-> "return", exc |-> None, text |-> None,
     value |-> [status_code |-> r.status_code, content |-> r.content]]

\* raise Exception(f"{r.status_code} {r.content}")
RaiseApi(r) ==
    [kind |-> "raise", exc |-> "Exception", text |-> "status content",
     value |-> [status_code |-> r.status_code, content |-> r.content]]

\* The interpreter's NameError for a name that is bound nowhere.
RaiseNameError(n) ==
    [kind |-> "raise", exc |-> "NameError", text |-> n, value |-> PyNone]

(* ------------------------------------------------------------------------ *)
(* Pure helpers                                                              *)
(* ------------------------------------------------------------------------ *)

\* AtlasAPI._project: the explicit argument, else the stored default, else None.
ResolveProject(project, stored) ==
    IF project = None /\ stored = None THEN None
    ELSE IF project = None THEN stored
    ELSE project

\* while thisurl[0] == "/": thisurl = thisurl[1:]
RECURSIVE StripSlashes(_)
StripSlashes(u) ==
    IF u # <<>> /\ Head(u) = "/" THEN StripSlashes(Tail(u)) ELSE u

ApiUrl == "https://cloud.mongodb.com"

KeyApiUrl == "https://cloud.mongodb.com/api/atlas/v1.0"

\* f"{self.apiurl}/{thisurl}" of get, post and patch.
FullUrl(u) == <<ApiUrl>> \o StripSlashes(u)

\* A request as it leaves the client: digest credentials are the stored keys.
Request(method, url, data, c) ==
    [method |-> method, url |-> url, data |-> data,
     pub |-> c.orgpub, priv |-> c.orgpriv]

\* r.json() / json.loads(r.content.decode()): the document the content carries.
Json(content) == content.doc

\* What the server puts on the wire for a document.
Wire(doc) == [type |-> "bytes", doc |-> doc]

\* uri.split(","): the token runs between commas.
RECURSIVE SplitAt(_, _, _)
SplitAt(toks, sep, cur) ==
    IF toks = <<>> THEN <<cur>>
    ELSE IF Head(toks) = sep THEN <<cur>> \o SplitAt(Tail(toks), sep, <<>>)
    ELSE SplitAt(Tail(toks), sep, Append(cur, Head(toks)))

Split(uri) == SplitAt(uri, ",", <<>>)

Schemes == {"mongodb://", "mongodb+srv://"}

\* urllib3.util.url.parse_url(url).host: the token after the scheme, if any.
ParseHost(entry) ==
    IF entry = <<>> THEN None
    ELSE IF Head(entry) \in Schemes
         THEN (IF Len(entry) > 1 THEN entry[2] ELSE None)
         ELSE Head(entry)

\* The inner loop of gethosts over one cluster's mongoURI.
UriHosts(uri) == [i \in 1..Len(Split(uri)) |-> ParseHost(Split(uri)[i])]

\* The outer loop of gethosts: clusters other than the given one are skipped.
RECURSIVE HostsOf(_, _)
HostsOf(res, cluster) ==
    IF res = <<>> THEN <<>>
    ELSE IF cluster # None /\ Head(res).id # cluster
         THEN HostsOf(Tail(res), cluster)
         ELSE UriHosts(Head(res).mongoURI) \o HostsOf(Tail(res), cluster)

\* [x["id"] for x in results]
IdsOf(res) == [i \in 1..Len(res) |-> res[i].id]

\* Appending to the request log, which stops growing at MaxLog entries.
Log(s, e) == IF Len(s) < MaxLog THEN Append(s, e) ELSE s

(* ------------------------------------------------------------------------ *)
(* State                                                                     *)
(* ------------------------------------------------------------------------ *)

VARIABLES
    env,          \* MONGODB_ATLAS_PUBLIC_KEY / _PRIVATE_KEY as read at import
    client,       \* the AtlasAPI object, or NoObject before construction
    keyobj,       \* the AtlasAPIKey object, or NoObject before construction
    op,           \* the call in progress or last completed, with its arguments
    pc,           \* "idle", "done", or the request the call issues next
    reqs,         \* requests issued by the call, in order
    resps,        \* the responses to them, in the same order
    r,            \* the local r: the response read last
    outcome,      \* how the call ended: a return value or a raised exception
    lproject,     \* the local project of get_measurement after resolution
    scope,        \* which branch of get_measurement runs: host, cluster, all
    clusterQ,     \* cluster ids still to visit, the current one first
    hostQ,        \* hosts of the current cluster still to measure
    results,      \* the local results of get_measurement
    status,       \* the local status of setldap
    lastCreated   \* history: id in the latest 200 answer to create()

objvars == <<env, client, keyobj, lastCreated>>
callvars == <<op, pc, reqs, resps, r, outcome>>
gmvars == <<lproject, scope, clusterQ, hostQ, results>>
vars == <<env, client, keyobj, op, pc, reqs, resps, r, outcome, lproject,
          scope, clusterQ, hostQ, results, status, lastCreated>>

NoObject == [made |-> FALSE]

NoResponse == [status_code |-> 0, content |-> Wire(PyNone)]

Call(name, host, cluster, project, keyid, orgpub, orgpriv) ==
    [name |-> name, host |-> host, cluster |-> cluster, project |-> project,
     keyid |-> keyid, orgpub |-> orgpub, orgpriv |-> orgpriv]

NoCall == Call("none", None, None, None, None, None, None)

\* No call is in progress.
Idle == pc \in {"idle", "done"}

\* Values a key may take: absent, or some key text.
EnvKeys == {None, "envkey"}
ArgKeys == {NotGiven, None, "argkey"}
ProjectArgs == Projects \cup {None}

\* The module is imported with whatever the environment holds; no object exists.
Init ==
    /\ env \in [pub : EnvKeys, priv : EnvKeys]
    /\ client = NoObject
    /\ keyobj = NoObject
    /\ op = NoCall
    /\ pc = "idle"
    /\ reqs = <<>>
    /\ resps = <<>>
    /\ r = NoResponse
    /\ outcome = NoOutcome
    /\ lproject = None
    /\ scope = None
    /\ clusterQ = <<>>
    /\ hostQ = <<>>
    /\ results = <<>>
    /\ status = None
    /\ lastCreated = None

\* The locals of get_measurement and setldap are not live.
NoLocals ==
    /\ lproject' = None
    /\ scope' = None
    /\ clusterQ' = <<>>
    /\ hostQ' = <<>>
    /\ results' = <<>>
    /\ status' = None

\* A call that ends without issuing any request.
EndsAtOnce(c, out) ==
    /\ op' = c
    /\ pc' = "done"
    /\ reqs' = <<>>
    /\ resps' = <<>>
    /\ r' = NoResponse
    /\ outcome' = out

\* A call that issues exactly one request, gets rsp, and ends with out.
EndsAfterOne(c, req, rsp, out) ==
    /\ op' = c
    /\ pc' = "done"
    /\ reqs' = <<req>>
    /\ resps' = <<rsp>>
    /\ r' = rsp
    /\ outcome' = out

(* ------------------------------------------------------------------------ *)
(* AtlasAPI                                                                  *)
(* ------------------------------------------------------------------------ *)

\* The value a key parameter takes: the argument, else the module default.
KeyParam(arg, default) == IF arg = NotGiven THEN default ELSE arg

\* if None in [orgpub, orgpriv]
KeyMissing(orgpub, orgpriv) == orgpub = None \/ orgpriv = None

\* AtlasAPI.__init__
Construct(project, pubArg, privArg) ==
    LET orgpub == KeyParam(pubArg, env.pub)
        orgpriv == KeyParam(privArg, env.priv)
        c == Call("AtlasAPI", None, None, project, None, orgpub, orgpriv)
    IN  /\ Idle
        /\ ~client.made
        /\ IF KeyMissing(orgpub, orgpriv)
           THEN /\ EndsAtOnce(c, RaiseMissingCredentials)
                /\ client' = client
           ELSE /\ EndsAtOnce(c, Return(PyNone))
                /\ client' = [made |-> TRUE, orgpub |-> orgpub, orgpriv |-> orgpriv,
                              orgid |-> "org", project |-> project]
        /\ NoLocals
        /\ UNCHANGED <<env, keyobj, lastCreated>>

\* The server's answer to GET groups/{project}/clusters with a given status.
ClustersResponse(project, code) ==
    IF code = 200 /\ project \in Projects
    THEN [status_code |-> 200, content |-> Wire([results |-> ServerClusters[project]])]
    ELSE [status_code |-> code, content |-> Wire([error |-> code])]

\* f"{self.apiurl}/api/atlas/v1.0/groups/{project}/clusters"
ClustersUrl(project) == <<ApiUrl, "api/atlas/v1.0/groups", project, "clusters">>

\* if r.status_code != 200: raise
NotOk(rsp) == rsp.status_code # 200

\* AtlasAPI.getclusters
GetClusters(project) ==
    LET p == ResolveProject(project, client.project)
        c == Call("getclusters", None, None, project, None, None, None)
    IN  /\ Idle
        /\ client.made
        /\ IF p = None
           THEN EndsAtOnce(c, RaiseMissingProject)
           ELSE \E code \in GetStatuses :
                  LET rsp == ClustersResponse(p, code)
                      req == Request("GET", ClustersUrl(p), PyNone, client)
                  IN  EndsAfterOne(c, req, rsp,
                          IF NotOk(rsp) THEN RaiseApi(rsp)
                          ELSE Return([clusters |-> Json(rsp.content).results]))
        /\ NoLocals
        /\ UNCHANGED objvars

\* AtlasAPI.getclusterids
GetClusterIds(project) ==
    LET p == ResolveProject(project, client.project)
        c == Call("getclusterids", None, None, project, None, None, None)
    IN  /\ Idle
        /\ client.made
        /\ IF p = None
           THEN EndsAtOnce(c, RaiseMissingProject)
           ELSE \E code \in GetStatuses :
                  LET rsp == ClustersResponse(p, code)
                      req == Request("GET", ClustersUrl(p), PyNone, client)
                  IN  EndsAfterOne(c, req, rsp,
                          IF NotOk(rsp) THEN RaiseApi(rsp)
                          ELSE Return([ids |-> IdsOf(Json(rsp.content).results)]))
        /\ NoLocals
        /\ UNCHANGED objvars

\* AtlasAPI.gethosts, called by the user: getclusters() runs with no argument.
GetHosts(cluster) ==
    LET p == ResolveProject(None, client.project)
        c == Call("gethosts", None, cluster, None, None, None, None)
    IN  /\ Idle
        /\ client.made
        /\ IF p = None
           THEN EndsAtOnce(c, RaiseMissingProject)
           ELSE \E code \in GetStatuses :
                  LET rsp == ClustersResponse(p, code)
                      req == Request("GET", ClustersUrl(p), PyNone, client)
                  IN  EndsAfterOne(c, req, rsp,
                          IF NotOk(rsp) THEN RaiseApi(rsp)
                          ELSE Return([hosts |-> HostsOf(Json(rsp.content).results, cluster)]))
        /\ NoLocals
        /\ UNCHANGED objvars

(* ------------------------------------------------------------------------ *)
(* AtlasAPI.get_measurement                                                  *)
(* ------------------------------------------------------------------------ *)

\* port = 27017
Port == "27017"

\* f"{baseurl}/{host}:{port}/measurements?{query}"
MeasurementUrl(project, host, name) ==
    <<"/", "api/atlas/v1.0/groups", project, "processes", host, Port,
      "measurements", name>>

\* Where control stands with a value set: the next request, or the end.
Goto(label, cq, hq, out) == [pc |-> label, clusterQ |-> cq, hostQ |-> hq, outcome |-> out]

\* Entering gethosts(cluster): getclusters() resolves the project it is given,
\* which is none, against the stored default.
GetClustersProject(stored) == ResolveProject(None, stored)

EnterGetHosts(cq, res) ==
    IF GetClustersProject(client.project) = None
    THEN Goto("done", cq, <<>>, RaiseMissingProject)
    ELSE Goto("gethosts", cq, <<>>, NoOutcome)

\* The head of a for loop over the hosts hq of the current cluster: measure the
\* next host, or leave the loop and go on with the cluster loop (or return).
HostLoop(sc, cq, hq, res) ==
    IF hq # <<>> THEN Goto("measure", cq, hq, NoOutcome)
    ELSE IF sc = "cluster" THEN Goto("done", <<>>, <<>>, Return([list |-> res]))
    ELSE IF Tail(cq) = <<>> THEN Goto("done", <<>>, <<>>, Return([list |-> res]))
    ELSE EnterGetHosts(Tail(cq), res)

\* The head of the for loop over the cluster ids cq of the project.
ClusterLoop(cq, res) ==
    IF cq = <<>> THEN Goto("done", <<>>, <<>>, Return([list |-> res]))
    ELSE EnterGetHosts(cq, res)

\* A variant in which the cluster argument takes precedence over the host.
ScopeOf_m(host, cluster) ==
    IF cluster # None THEN "cluster" ELSE IF host # None THEN "host" ELSE "all"

\* Which branch of get_measurement runs.
ScopeOf(host, cluster) ==
    IF host # None THEN "host" ELSE IF cluster # None THEN "cluster" ELSE "all"

MetricNames == {"CONNECTIONS"}

\* get_measurement up to its first request.
GetMeasurementCall(host, cluster, project) ==
    LET p == ResolveProject(project, client.project)
        c == Call("get_measurement", host, cluster, project, None, None, None)
        sc == ScopeOf(host, cluster)
        g == IF p = None THEN Goto("done", <<>>, <<>>, RaiseMissingProject)
             ELSE IF sc = "host" THEN Goto("measure", <<>>, <<host>>, NoOutcome)
             ELSE IF sc = "cluster" THEN EnterGetHosts(<<cluster>>, <<>>)
             ELSE Goto("getclusterids", <<>>, <<>>, NoOutcome)
    IN  /\ Idle
        /\ client.made
        /\ op' = c
        /\ pc' = g.pc
        /\ reqs' = <<>>
        /\ resps' = <<>>
        /\ r' = NoResponse
        /\ outcome' = g.outcome
        /\ lproject' = p
        /\ scope' = sc
        /\ clusterQ' = g.clusterQ
        /\ hostQ' = g.hostQ
        /\ results' = <<>>
        /\ status' = None
        /\ UNCHANGED objvars

\* for cluster in self.getclusterids(project): the request of getclusterids.
GetClusterIdsStep ==
    /\ pc = "getclusterids"
    /\ \E code \in GetStatuses :
         LET rsp == ClustersResponse(lproject, code)
             req == Request("GET", ClustersUrl(lproject), PyNone, client)
             g == IF NotOk(rsp) THEN Goto("done", <<>>, <<>>, RaiseApi(rsp))
                  ELSE ClusterLoop(IdsOf(Json(rsp.content).results), results)
         IN  /\ reqs' = Log(reqs, req)
             /\ resps' = Log(resps, rsp)
             /\ r' = rsp
             /\ pc' = g.pc
             /\ outcome' = g.outcome
             /\ clusterQ' = g.clusterQ
             /\ hostQ' = g.hostQ
    /\ UNCHANGED <<op, lproject, scope, results, status>>
    /\ UNCHANGED objvars

\* for host in self.gethosts(cluster): the request of getclusters() in gethosts.
GetHostsStep ==
    /\ pc = "gethosts"
    /\ \E code \in GetStatuses :
         LET p == GetClustersProject(client.project)
             rsp == ClustersResponse(p, code)
             req == Request("GET", ClustersUrl(p), PyNone, client)
             g == IF NotOk(rsp) THEN Goto("done", <<>>, <<>>, RaiseApi(rsp))
                  ELSE HostLoop(scope, clusterQ,
                                HostsOf(Json(rsp.content).results, Head(clusterQ)),
                                results)
         IN  /\ reqs' = Log(reqs, req)
             /\ resps' = Log(resps, rsp)
             /\ r' = rsp
             /\ pc' = g.pc
             /\ outcome' = g.outcome
             /\ clusterQ' = g.clusterQ
             /\ hostQ' = g.hostQ
    /\ UNCHANGED <<op, lproject, scope, results, status>>
    /\ UNCHANGED objvars

\* The server's answer to a measurement GET.
MeasurementResponses ==
    {[status_code |-> 200, content |-> Wire(d)] : d \in MeasurementDocs}
      \cup {[status_code |-> code, content |-> Wire([error |-> code])] :
              code \in GetStatuses \ {200}}

\* r = self.get(url) for the next host, and what follows up to the next request.
MeasureStep ==
    /\ pc = "measure"
    /\ \E name \in MetricNames, rsp \in MeasurementResponses :
         LET req == Request("GET",
                            FullUrl(MeasurementUrl(lproject, Head(hostQ), name)),
                            PyNone, client)
             res == IF NotOk(rsp) \/ scope = "host" THEN results
                    ELSE Append(results, Json(rsp.content))
             g == IF NotOk(rsp) THEN Goto("done", <<>>, <<>>, RaiseApi(rsp))
                  ELSE IF scope = "host"
                       THEN Goto("done", <<>>, <<>>, Return([json |-> Json(rsp.content)]))
                       ELSE HostLoop(scope, clusterQ, Tail(hostQ), res)
         IN  /\ reqs' = Log(reqs, req)
             /\ resps' = Log(resps, rsp)
             /\ r' = rsp
             /\ results' = res
             /\ pc' = g.pc
             /\ outcome' = g.outcome
             /\ clusterQ' = g.clusterQ
             /\ hostQ' = g.hostQ
    /\ UNCHANGED <<op, lproject, scope, status>>
    /\ UNCHANGED objvars

(* ------------------------------------------------------------------------ *)
(* AtlasAPI.setldap                                                          *)
(* ------------------------------------------------------------------------ *)

\* f"/api/atlas/v1.0/groups/{project}/userSecurity/ldap/verify"
LdapUrl(project) == <<"/", "api/atlas/v1.0/groups", project, "userSecurity/ldap/verify">>

\* f"{thisurl}/{requestid}"
LdapPollUrl(project, requestid) == LdapUrl(project) \o <<requestid>>

RequestIds == {"rq1"}

\* Diagnostics the verify endpoint may attach to a response.
Validations == {"va", "vb"}

\* What the verify endpoint may answer to the POST or to a poll: while the
\* verification runs there are no diagnostics yet.
VerifyResponses ==
    {[status_code |-> 200,
      content |-> Wire([requestId |-> q, status |-> s, validations |-> v])] :
        q \in RequestIds, s \in LdapStatuses \ {"PENDING"}, v \in Validations}
      \cup {[status_code |-> 200,
              content |-> Wire([requestId |-> q, status |-> "PENDING",
                                validations |-> "none"])] : q \in RequestIds}

\* What the server may answer to the PATCH.
PatchResponses ==
    {[status_code |-> code, content |-> Wire([ldap |-> code])] : code \in PatchStatuses}

\* The config of step 1.
VerifyConfig ==
    [bindUsername |-> "binduser", bindPassword |-> "bindpass",
     hostname |-> "ldaphost", port |-> 636]

\* The config of step 2.
LdapConfig ==
    [customerX509 |-> PyNone,
     ldap |-> [authenticationEnabled |-> TRUE, authorizationEnabled |-> TRUE,
               bindUsername |-> "binduser", bindPassword |-> "bindpass",
               hostname |-> "ldaphost", port |-> 636, userToDNMapping |-> None]]

\* A variant that keeps polling until the verification succeeds.
StillPending_m(st) == st # "SUCCESS"

\* while status == "PENDING"
StillPending(st) == st = "PENDING"

\* A variant that takes only some other status for a failure.
VerifyFailed_m(st) == st \notin {"SUCCESS", "FAILED"}

\* if status != "SUCCESS"
VerifyFailed(st) == st # "SUCCESS"

\* Whether evaluating the name raises NameError: it is bound nowhere.
Unbound(n) == n \notin BoundNames

\* setldap up to and including the verify POST; project is used as given.
SetLdapCall(project) ==
    /\ Idle
    /\ client.made
    /\ \E rsp \in VerifyResponses :
         /\ op' = Call("setldap", None, None, project, None, None, None)
         /\ reqs' = <<Request("POST", FullUrl(LdapUrl(project)), VerifyConfig, client)>>
         /\ resps' = <<rsp>>
         /\ r' = rsp
         /\ status' = Json(rsp.content).status
    /\ pc' = "ldap_loop"
    /\ outcome' = NoOutcome
    /\ lproject' = None
    /\ scope' = None
    /\ clusterQ' = <<>>
    /\ hostQ' = <<>>
    /\ results' = <<>>
    /\ UNCHANGED objvars

\* One round of the poll loop: sleep, GET the request's url, refresh status.
LdapPoll ==
    /\ pc = "ldap_loop"
    /\ StillPending(status)
    /\ \E rsp \in VerifyResponses :
         /\ reqs' = Log(reqs, Request("GET",
                        FullUrl(LdapPollUrl(op.project, Json(resps[1].content).requestId)),
                        PyNone, client))
         /\ resps' = Log(resps, rsp)
         /\ r' = rsp
         /\ status' = Json(rsp.content).status
    /\ UNCHANGED <<op, pc, outcome>>
    /\ UNCHANGED gmvars
    /\ UNCHANGED objvars

\* After the loop: the failure result, or step 2.  Building the config of
\* step 2 evaluates the name true before patch is called.
LdapFinish ==
    /\ pc = "ldap_loop"
    /\ ~StillPending(status)
    /\ IF VerifyFailed(status)
       THEN /\ outcome' = Return([ok |-> FALSE, validations |-> Json(r.content).validations])
            /\ UNCHANGED <<reqs, resps, r>>
       ELSE IF Unbound("true")
       THEN /\ outcome' = RaiseNameError("true")
            /\ UNCHANGED <<reqs, resps, r>>
       ELSE \E rsp \in PatchResponses :
            /\ reqs' = Log(reqs, Request("PATCH", FullUrl(LdapUrl(op.project)), LdapConfig, client))
            /\ resps' = Log(resps, rsp)
            /\ r' = rsp
            /\ outcome' = IF rsp.status_code # 202 THEN RaiseApi(rsp)
                          ELSE Return([json |-> Json(rsp.content)])
    /\ pc' = "done"
    /\ UNCHANGED <<op, status>>
    /\ UNCHANGED gmvars
    /\ UNCHANGED objvars

(* ------------------------------------------------------------------------ *)
(* AtlasAPIKey                                                               *)
(* ------------------------------------------------------------------------ *)

\* Keys a caller may pass to AtlasAPIKey: both parameters are positional.
PassedKeys == {None, "argkey"}

\* AtlasAPIKey.__init__
KeyConstruct(project, orgpub, orgpriv) ==
    /\ Idle
    /\ ~keyobj.made
    /\ EndsAtOnce(Call("AtlasAPIKey", None, None, project, None, orgpub, orgpriv),
                  Return(PyNone))
    /\ keyobj' = [made |-> TRUE, project |-> project, orgpub |-> orgpub,
                  orgpriv |-> orgpriv, orgid |-> "org",
                  public |-> None, private |-> None, keyid |-> None]
    /\ NoLocals
    /\ UNCHANGED <<env, client, lastCreated>>

\* f"{self.apiurl}/groups/{self.project}/apiKeys"
ApiKeysUrl(project) == <<KeyApiUrl, "groups", project, "apiKeys">>

\* f"{self.apiurl}/orgs/{self.orgid}/apiKeys/{keyid}/whitelist"
WhitelistUrl(orgid, keyid) == <<KeyApiUrl, "orgs", orgid, "apiKeys", keyid, "whitelist">>

\* The key pair the server issues under a key id.
PublicOf(k) == IF k = "k1" THEN "public1" ELSE "public2"
PrivateOf(k) == IF k = "k1" THEN "private1" ELSE "private2"

\* What the server may answer to the key-creation POST.
CreateResponses ==
    {[status_code |-> 200,
      content |-> Wire([publicKey |-> PublicOf(k), privateKey |-> PrivateOf(k),
                        id |-> k])] : k \in KeyIds}
      \cup {[status_code |-> code, content |-> Wire([error |-> code])] :
              code \in GetStatuses \ {200}}

\* if r.status_code == 200
Created(rsp) == rsp.status_code = 200

\* AtlasAPIKey.create
KeyCreate ==
    /\ Idle
    /\ keyobj.made
    /\ \E rsp \in CreateResponses :
         /\ EndsAfterOne(Call("create", None, None, None, None, None, None),
                         Request("POST", ApiKeysUrl(keyobj.project), [desc |-> "Project API key for automation", roles |-> <<"GROUP_OWNER">>], keyobj),
                         rsp,
                         Return([status_code |-> rsp.status_code, content |-> rsp.content]))
         /\ IF Created(rsp)
            THEN /\ keyobj' = [keyobj EXCEPT !.public = Json(rsp.content).publicKey,
                                             !.private = Json(rsp.content).privateKey,
                                             !.keyid = Json(rsp.content).id]
            ELSE UNCHANGED keyobj
         /\ lastCreated' = IF rsp.status_code = 200 THEN Json(rsp.content).id
                           ELSE lastCreated
    /\ NoLocals
    /\ UNCHANGED <<env, client>>

\* A variant that never falls back to the stored key id.
TargetKey_m(keyid, stored) == keyid

\* if keyid is None: keyid = self.keyid
TargetKey(keyid, stored) == IF keyid = None THEN stored ELSE keyid

\* r.content.decode() when the content is bytes.
Decode(content) ==
    IF content.type = "bytes" THEN [content EXCEPT !.type = "str"] ELSE content

\* Status codes the whitelist endpoint may answer with.
WhitelistStatuses == {200, 409}

CidrLists == {<<"18.232.0.0/14">>, <<"18.232.0.0/14", "54.174.0.0/15">>}

\* [{"cidrBlock": x} for x in cidrs]
CidrData(cidrs) == [list |-> [i \in 1..Len(cidrs) |-> [cidrBlock |-> cidrs[i]]]]

\* AtlasAPIKey.addcidrblock
AddCidrBlock(cidrs, keyid) ==
    /\ Idle
    /\ keyobj.made
    /\ \E code \in WhitelistStatuses :
         LET rsp == [status_code |-> code, content |-> Wire([whitelist |-> code])]
             req == Request("POST",
                            WhitelistUrl(keyobj.orgid, TargetKey(keyid, keyobj.keyid)),
                            CidrData(cidrs), keyobj)
         IN  EndsAfterOne(Call("addcidrblock", None, None, None, keyid, None, None),
                          req, rsp,
                          Return([status_code |-> rsp.status_code, content |-> Decode(rsp.content)]))
    /\ NoLocals
    /\ UNCHANGED objvars

(* ------------------------------------------------------------------------ *)
(* Specifications                                                            *)
(* ------------------------------------------------------------------------ *)

HostArgs == Hosts \cup {None}
ClusterArgs == ClusterIds \cup {None}
KeyIdArgs == KeyIds \cup {None}

\* The calls a program makes on one AtlasAPI object.
Next ==
    \/ \E p \in ProjectArgs, a \in ArgKeys, b \in ArgKeys : Construct(p, a, b)
    \/ \E p \in ProjectArgs : GetClusters(p)
    \/ \E p \in ProjectArgs : GetClusterIds(p)
    \/ \E c \in ClusterArgs : GetHosts(c)
    \/ \E h \in HostArgs, c \in ClusterArgs, p \in ProjectArgs : GetMeasurementCall(h, c, p)
    \/ GetClusterIdsStep
    \/ GetHostsStep
    \/ MeasureStep
    \/ \E p \in ProjectArgs : SetLdapCall(p)
    \/ LdapPoll
    \/ LdapFinish

Spec == Init /\ [][Next]_vars

\* A call in progress goes on: the code is sequential and every request returns.
FairSpec ==
    /\ Spec
    /\ WF_vars(GetClusterIdsStep)
    /\ WF_vars(GetHostsStep)
    /\ WF_vars(MeasureStep)
    /\ WF_vars(LdapPoll)
    /\ WF_vars(LdapFinish)

\* The calls a program makes on one AtlasAPIKey object.
KeyNext ==
    \/ \E p \in Projects, a \in PassedKeys, b \in PassedKeys : KeyConstruct(p, a, b)
    \/ KeyCreate
    \/ \E cs \in CidrLists, k \in KeyIdArgs : AddCidrBlock(cs, k)

KeySpec == Init /\ [][KeyNext]_vars

(* ------------------------------------------------------------------------ *)
(* Properties                                                                *)
(* ------------------------------------------------------------------------ *)

\* The project a request of the AtlasAPI client is addressed to.
UrlProject(q) == q.url[3]

IsMeasurement(q) == Len(q.url) = 8 /\ q.url[4] = "processes"

\* Positions of the measurement requests in the log, in order.
MeasurementIdx == SelectSeq([i \in 1..Len(reqs) |-> i], LAMBDA i : IsMeasurement(reqs[i]))

Methods == [i \in 1..Len(reqs) |-> reqs[i].method]

\* How many of the statuses read so far were PENDING.
PendingCount == Cardinality({i \in 1..Len(resps) : resps[i].content.doc.status = "PENDING"})

InSetldap == op.name = "setldap"

\* C1: setldap whose verify POST and polls report k times PENDING and then
\* SUCCESS has, when it ends, issued the POST, exactly k poll GETs and then
\* exactly one PATCH, and returns the PATCH response body when its status is 202.
C1_PollsThenPatch ==
    (InSetldap /\ pc = "done" /\ status = "SUCCESS" /\ Len(resps) < MaxLog) =>
        /\ Len(reqs) = PendingCount + 2
        /\ Methods = <<"POST">> \o [i \in 1..PendingCount |-> "GET"] \o <<"PATCH">>
        /\ (r.status_code = 202 =>
              outcome.kind = "return" /\ outcome.value = [json |-> r.content.doc])

\* C2: setldap whose status sequence ends in a status that is neither PENDING
\* nor SUCCESS issues no PATCH, raises nothing, and returns the failure result
\* carrying the validations of the last response.
C2_FailureResult ==
    (InSetldap /\ pc = "done" /\ status \notin {"PENDING", "SUCCESS"}) =>
        /\ \A i \in 1..Len(reqs) : reqs[i].method # "PATCH"
        /\ outcome.kind = "return"
        /\ outcome.value.ok = FALSE
        /\ Len(resps) < MaxLog =>
              outcome.value.validations = resps[Len(resps)].content.doc.validations

\* C2 witness: a verification that was polled at least twice and then FAILED.
C2_Witness ==
    /\ InSetldap /\ pc = "done" /\ status = "FAILED"
    /\ Len(reqs) >= 3 /\ Len(resps) < MaxLog
    /\ outcome.kind = "return"
    /\ outcome.value.validations \in Validations

NeedsProject ==
    op.name \in {"getclusters", "getclusterids", "gethosts", "get_measurement", "setldap"}

\* C3: a call that requires a project, given project=None on a client with no
\* stored default, issues no request and fails with the missing-project error.
C3_NoProjectNoRequest ==
    (NeedsProject /\ op.project = None /\ client.project = None) =>
        /\ reqs = <<>>
        /\ pc = "done"
        /\ outcome.kind = "raise" /\ outcome.text = "project is None"

\* C4: when get_measurement, getclusters or getclusterids is called with an
\* explicit project, every request it issues is addressed to that project;
\* without one, every request is addressed to the stored default.
C4_ExplicitProjectWins ==
    (op.name \in {"get_measurement", "getclusters", "getclusterids"}) =>
        \A i \in 1..Len(reqs) :
            UrlProject(reqs[i]) = IF op.project # None THEN op.project ELSE client.project

\* The hosts of each cluster in the order its connection URI lists them.
UriOrder(c) ==
    IF c = "c1" THEN <<"h1", "h2">> ELSE IF c = "c2" THEN <<"h3">> ELSE <<"h2", "h1">>

\* The hosts of a cluster as seen in a project.
ProjectClusterHosts(p, c) ==
    IF \E i \in 1..Len(ServerClusters[p]) : ServerClusters[p][i].id = c
    THEN UriOrder(c) ELSE <<>>

\* C5: get_measurement in cluster scope that returns has issued exactly one
\* measurement request per host of that cluster of the project, in URI order,
\* and returns the response bodies in that order.
C5_ClusterScopeOrder ==
    (/\ op.name = "get_measurement" /\ op.host = None /\ op.cluster # None
     /\ lproject # None /\ pc = "done" /\ outcome.kind = "return") =>
            LET want == ProjectClusterHosts(lproject, op.cluster)
                idx == MeasurementIdx
            IN  /\ Len(idx) = Len(want)
                /\ \A j \in 1..Len(idx) : reqs[idx[j]].url[5] = want[j]
                /\ Len(outcome.value.list) = Len(want)
                /\ \A j \in 1..Len(idx) :
                      outcome.value.list[j] = resps[idx[j]].content.doc

InListing == op.name \in {"getclusters", "getclusterids", "get_measurement"}

\* C6: during getclusters, getclusterids or get_measurement a response whose
\* status is not 200 is the last one of the call: the call has ended by raising
\* the error that carries that status code and body, and returns nothing.
C6_Non200Aborts ==
    InListing =>
        \A i \in 1..Len(resps) :
            resps[i].status_code # 200 =>
                /\ i = Len(resps)
                /\ Len(reqs) = Len(resps)
                /\ pc = "done"
                /\ outcome.kind = "raise"
                /\ outcome.text = "status content"
                /\ outcome.value.status_code = resps[i].status_code
                /\ outcome.value.content = resps[i].content

\* C6 witness: a whole-project aggregation that failed after two measurements
\* had already been collected.
C6_Witness ==
    /\ op.name = "get_measurement" /\ scope = "all" /\ pc = "done"
    /\ Len(results) >= 2
    /\ resps[Len(resps)].status_code = 500
    /\ outcome.kind = "raise"

\* C7: get_measurement with an explicit host, with or without a cluster
\* argument, issues exactly one request, the measurement GET for that host, and
\* returns that response's JSON body as it is.
C7_HostScopeSingle ==
    (op.name = "get_measurement" /\ op.host # None) =>
        /\ Len(reqs) <= 1
        /\ (pc = "done" /\ lproject # None) =>
              /\ Len(reqs) = 1
              /\ reqs[1].method = "GET"
              /\ IsMeasurement(reqs[1])
              /\ reqs[1].url[5] = op.host
              /\ resps[1].status_code = 200 =>
                    outcome.kind = "return" /\ outcome.value = [json |-> resps[1].content.doc]

\* C7 witness: a host-scoped call that was also given a cluster and returned.
C7_Witness ==
    /\ op.name = "get_measurement" /\ op.host # None /\ op.cluster # None
    /\ pc = "done" /\ outcome.kind = "return"
    /\ Len(reqs) = 1
    /\ outcome.value.json \in MeasurementDocs

\* C8: addcidrblock without keyid targets the id returned by the latest create
\* that got status 200; a create that gets another status leaves the stored
\* keys and id unchanged; create always returns (status, body).
C8_DefaultKeyIsLatest ==
    [][ /\ (op'.name = "addcidrblock" /\ op'.keyid = None /\ lastCreated # None) =>
              reqs'[1].url[5] = lastCreated
        /\ op'.name = "create" =>
              /\ outcome'.kind = "return"
              /\ outcome'.value = [status_code |-> resps'[1].status_code,
                                    content |-> resps'[1].content]
              /\ resps'[1].status_code # 200 => keyobj' = keyobj
              /\ resps'[1].status_code = 200 =>
                    /\ keyobj'.keyid = resps'[1].content.doc.id
                    /\ keyobj'.public = resps'[1].content.doc.publicKey
                    /\ keyobj'.private = resps'[1].content.doc.privateKey
      ]_vars

\* C8 witness: addcidrblock without keyid after a successful create.
C8_Witness ==
    /\ op.name = "addcidrblock" /\ op.keyid = None
    /\ lastCreated # None
    /\ reqs[1].url[5] = lastCreated

\* C9: no object with a missing key exists, and every request is signed with
\* both keys.
C9_NoMissingKey ==
    /\ client.made => client.orgpub # None /\ client.orgpriv # None
    /\ keyobj.made => keyobj.orgpub # None /\ keyobj.orgpriv # None
    /\ \A i \in 1..Len(reqs) : reqs[i].pub # None /\ reqs[i].priv # None

\* C10: a poll GET is issued only when the status read last was PENDING; once
\* a status other than PENDING has been read setldap leaves the loop and ends;
\* and it never ends while the status read last is PENDING.
C10_PollOnlyPending ==
    /\ [][(pc = "ldap_loop" /\ pc' = "ldap_loop") => status = "PENDING"]_vars
    /\ [][(InSetldap /\ Len(reqs') > Len(reqs) /\ reqs'[Len(reqs')].method = "GET")
            => status = "PENDING"]_vars
    /\ (pc = "ldap_loop" /\ status # "PENDING") ~> (pc = "done")
    /\ [](InSetldap /\ pc = "done" => status # "PENDING")

\* C10 witness: the loop still running after the log is full, status PENDING.
C10_Witness ==
    /\ InSetldap /\ pc = "ldap_loop" /\ status = "PENDING"
    /\ Len(reqs) = MaxLog

====
